---- MODULE Spec2Model ----
(***************************************************************************)
(* State-reconciliation core of the client: the READY (handshake) handler, *)
(* ClientUser._patch, ClientUser.edit, UserNoteUpdateAction.handle and     *)
(* ClientApplication._patch.                                               *)
(*                                                                         *)
(* JavaScript values are records [t |-> <typeof / class>, v |-> <value>],  *)
(* so that `typeof x === 'boolean'`, truthiness, `undefined` and `null`    *)
(* are all distinguishable.  Payload objects are functions from the keys   *)
(* they carry to values: `k in data` is k \in DOMAIN data.                 *)
(***************************************************************************)
EXTENDS Integers, Sequences, FiniteSets, TLC

---------------------------------------------------------------------------
(* Bounds of the model *)

\* handshakes (READY events) delivered in one run
MaxHandshakes == 2
\* optional keys carried by one user payload
MaxKeys == 1
\* records in the relationships list of a handshake
MaxRelations == 2
\* entries in the notes object of a handshake
MaxNotes == 1
\* REST requests of edit() in flight at once
MaxPending == 1

---------------------------------------------------------------------------
(* JavaScript values *)

Undefined == [t |-> "undefined", v |-> ""]
Null      == [t |-> "null", v |-> ""]
Bool(b)   == [t |-> "boolean", v |-> b]
Str(s)    == [t |-> "string", v |-> s]
Arr(s)    == [t |-> "array", v |-> s]
Obj(d)    == [t |-> "object", v |-> d]

TypeOf(x) == IF x.t \in {"undefined", "boolean", "string"} THEN x.t ELSE "object"

Truthy(x) ==
  CASE x.t \in {"undefined", "null"} -> FALSE
    [] x.t = "boolean" -> x.v
    [] x.t = "string" -> Len(x.v) # 0
    [] OTHER -> TRUE

\* data[k] of a payload object: undefined when the key is missing
Get(data, k) == IF k \in DOMAIN data THEN data[k] ELSE Undefined

\* obj[k] = v on a payload object (adds the key when missing)
Put(data, k, v) == [x \in DOMAIN data \cup {k} |-> IF x = k THEN v ELSE data[x]]

---------------------------------------------------------------------------
(* Collection (a Map): get / set *)

EmptyCollection == <<>>

CollectionGet(m, k) == IF k \in DOMAIN m THEN m[k] ELSE Undefined

CollectionSet(m, k, v) == [x \in DOMAIN m \cup {k} |-> IF x = k THEN v ELSE m[x]]

---------------------------------------------------------------------------
(* Input domains *)

Me == "me"
UserIds == {"A", "B"}
GuildIds == {"g1"}
Shards == {0, 1}
RelationTypes == {1, 2, 3}
NoteStrings == {"", "hi"}
InitialToken == Str("t0")

OptionalKeys == {"verified", "email", "premium", "mfa_enabled", "mobile", "token"}

GuildSettingsEntries == [guild_id : GuildIds, v : {"x1", "x2"}]

KeyValues(k) ==
  CASE k \in {"verified", "premium", "mfa_enabled", "mobile"} -> {Bool(TRUE), Bool(FALSE)}
    [] k = "email" -> {Str("a@x")}
    [] k = "token" -> {Str("t1")}

UserSettings == {Obj("s1"), Obj("s2")}
UserGuildSettings == {Arr(<<e>>) : e \in GuildSettingsEntries}

AllKeyValues == UNION {KeyValues(k) : k \in OptionalKeys}

\* user objects: {id: Me} plus at most MaxKeys optional keys
UserPayloads ==
  UNION {{("id" :> Me) @@ f : f \in {g \in [K -> AllKeyValues] : \A k \in K : g[k] \in KeyValues(k)}} :
         K \in {S \in SUBSET OptionalKeys : Cardinality(S) <= MaxKeys}}

RECURSIVE SeqsUpTo(_, _)
SeqsUpTo(S, n) ==
  IF n = 0 THEN {<<>>}
  ELSE LET shorter == SeqsUpTo(S, n - 1)
       IN shorter \cup {Append(q, x) : q \in {p \in shorter : Len(p) = n - 1}, x \in S}

Relations == [user : UserIds, type : RelationTypes]
\* the relationships array: no record twice, a user possibly under two types
RelationLists == {q \in SeqsUpTo(Relations, MaxRelations) :
                    \A i, j \in 1..Len(q) : q[i] = q[j] => i = j}

\* the notes object {userId: rawNote}: keys are unique, iterated in insertion order
NoteEntries == [user : UserIds, note : NoteStrings]
NoteLists == {q \in SeqsUpTo(NoteEntries, MaxNotes) :
                \A i, j \in 1..Len(q) : q[i].user = q[j].user => i = j}

\* the user object that carries no optional key
BareUser == ("id" :> Me)

BasePayload == [user |-> BareUser, guilds |-> <<>>, relationships |-> <<>>]

\* handshake payloads of the bootstrap runs: the base payload varied in its
\* relationships, its notes or its settings, and the payloads that carry one
\* guild, one relationship and one note at once
ReadyPayloads ==
     {[BasePayload EXCEPT !.relationships = r] : r \in RelationLists}
  \cup {BasePayload @@ ("notes" :> n) : n \in NoteLists}
  \cup {BasePayload @@ ("user_settings" :> s) : s \in UserSettings}
  \cup {BasePayload @@ ("user_guild_settings" :> g) : g \in UserGuildSettings}
  \cup {[BasePayload EXCEPT !.guilds = <<g>>, !.relationships = <<r>>]
          @@ ("notes" :> <<[user |-> r.user, note |-> n]>>) :
          g \in GuildIds, r \in Relations, n \in NoteStrings}

\* handshake payloads of the runs that exercise _patch and edit(): the base
\* payload varied in its user object, and the payloads that fill every cache
EditReadyPayloads ==
     {[BasePayload EXCEPT !.user = u] : u \in UserPayloads}
  \cup {[BasePayload EXCEPT !.relationships = <<r>>]
          @@ ("notes" :> <<[user |-> r.user, note |-> "hi"]>>)
          @@ ("user_settings" :> Obj("s1"))
          @@ ("user_guild_settings" :> Arr(<<[guild_id |-> "g1", v |-> "x1"]>>)) :
          r \in {x \in Relations : x.user = "A"}}

NoteUpdates == [id : UserIds, note : {"", "yo"}]

---------------------------------------------------------------------------
(* The account entity (ClientUser) *)

\* client.user before the first handshake
NoUser == [inst |-> 0]

\* the object `new ClientUser` starts from: no property has been assigned
\* yet; inst identifies the instance
BlankUser(inst) ==
  [inst |-> inst, id |-> "", verified |-> Undefined, email |-> Undefined,
   friends |-> EmptyCollection, blocked |-> EmptyCollection, notes |-> EmptyCollection,
   premium |-> Undefined, mfaEnabled |-> Undefined, mobile |-> Undefined,
   settings |-> Undefined, guildSettings |-> EmptyCollection, cache |-> Undefined]

\* User._patch (super._patch): the identity fields
User_patch(this, data) == [this EXCEPT !.id = data.id]

NewClientUserSettings(data) == [t |-> "ClientUserSettings", v |-> data.v]

NewClientUserGuildSettings(settings) == [t |-> "ClientUserGuildSettings", v |-> settings]

RECURSIVE PatchGuildSettings(_, _)
PatchGuildSettings(m, list) ==
  IF list = <<>> THEN m
  ELSE PatchGuildSettings(
         CollectionSet(m, Head(list).guild_id, NewClientUserGuildSettings(Head(list))),
         Tail(list))

\* ClientUser._patch with premium falling back to the mobile flag the entity
\* holds, instead of null, when the payload has no boolean premium
ClientUser_patchPremiumFromMobile(this, token, data) ==
  LET u0 == User_patch(this, data)
      u1 == IF "verified" \in DOMAIN data THEN [u0 EXCEPT !.verified = data.verified] ELSE u0
      u2 == [u1 EXCEPT !.email = Get(data, "email"),
                       !.friends = EmptyCollection,
                       !.blocked = EmptyCollection,
                       !.notes = EmptyCollection,
                       !.premium = IF TypeOf(Get(data, "premium")) = "boolean"
                                   THEN data.premium ELSE this.mobile]
      u3 == IF "mfa_enabled" \in DOMAIN data
            THEN [u2 EXCEPT !.mfaEnabled = IF TypeOf(data.mfa_enabled) = "boolean"
                                           THEN data.mfa_enabled ELSE Null]
            ELSE IF TypeOf(u2.mfaEnabled) = "undefined"
                 THEN [u2 EXCEPT !.mfaEnabled = Null]
                 ELSE u2
      u4 == [u3 EXCEPT !.mobile = IF TypeOf(Get(data, "mobile")) = "boolean"
                                  THEN data.mobile ELSE Null,
                       !.settings = IF Truthy(Get(data, "user_settings"))
                                    THEN NewClientUserSettings(data.user_settings) ELSE Null,
                       !.guildSettings = IF Truthy(Get(data, "user_guild_settings"))
                                         THEN PatchGuildSettings(EmptyCollection,
                                                                 data.user_guild_settings.v)
                                         ELSE EmptyCollection]
  IN [this |-> u4,
      token |-> IF Truthy(Get(data, "token")) THEN data.token ELSE token]

\* ClientUser._patch creating friends and blocked only when the entity has
\* none yet, instead of on every application
ClientUser_patchKeepsRelations(this, token, data) ==
  LET u0 == User_patch(this, data)
      u1 == IF "verified" \in DOMAIN data THEN [u0 EXCEPT !.verified = data.verified] ELSE u0
      u2 == [u1 EXCEPT !.email = Get(data, "email"),
                       !.friends = IF this.friends = Undefined
                                   THEN EmptyCollection ELSE this.friends,
                       !.blocked = IF this.blocked = Undefined
                                   THEN EmptyCollection ELSE this.blocked,
                       !.notes = EmptyCollection,
                       !.premium = IF TypeOf(Get(data, "premium")) = "boolean"
                                   THEN data.premium ELSE Null]
      u3 == IF "mfa_enabled" \in DOMAIN data
            THEN [u2 EXCEPT !.mfaEnabled = IF TypeOf(data.mfa_enabled) = "boolean"
                                           THEN data.mfa_enabled ELSE Null]
            ELSE IF TypeOf(u2.mfaEnabled) = "undefined"
                 THEN [u2 EXCEPT !.mfaEnabled = Null]
                 ELSE u2
      u4 == [u3 EXCEPT !.mobile = IF TypeOf(Get(data, "mobile")) = "boolean"
                                  THEN data.mobile ELSE Null,
                       !.settings = IF Truthy(Get(data, "user_settings"))
                                    THEN NewClientUserSettings(data.user_settings) ELSE Null,
                       !.guildSettings = IF Truthy(Get(data, "user_guild_settings"))
                                         THEN PatchGuildSettings(EmptyCollection,
                                                                 data.user_guild_settings.v)
                                         ELSE EmptyCollection]
  IN [this |-> u4,
      token |-> IF Truthy(Get(data, "token")) THEN data.token ELSE token]

\* ClientUser._patch(data), with this.client.token passed in and out
ClientUser_patch(this, token, data) ==
  LET u0 == User_patch(this, data)
      u1 == IF "verified" \in DOMAIN data THEN [u0 EXCEPT !.verified = data.verified] ELSE u0
      u2 == [u1 EXCEPT !.email = Get(data, "email"),
                       !.friends = EmptyCollection,
                       !.blocked = EmptyCollection,
                       !.notes = EmptyCollection,
                       !.premium = IF TypeOf(Get(data, "premium")) = "boolean"
                                   THEN data.premium ELSE Null]
      u3 == IF "mfa_enabled" \in DOMAIN data
            THEN [u2 EXCEPT !.mfaEnabled = IF TypeOf(data.mfa_enabled) = "boolean"
                                           THEN data.mfa_enabled ELSE Null]
            ELSE IF TypeOf(u2.mfaEnabled) = "undefined"
                 THEN [u2 EXCEPT !.mfaEnabled = Null]
                 ELSE u2
      u4 == [u3 EXCEPT !.mobile = IF TypeOf(Get(data, "mobile")) = "boolean"
                                  THEN data.mobile ELSE Null,
                       !.settings = IF Truthy(Get(data, "user_settings"))
                                    THEN NewClientUserSettings(data.user_settings) ELSE Null,
                       !.guildSettings = IF Truthy(Get(data, "user_guild_settings"))
                                         THEN PatchGuildSettings(EmptyCollection,
                                                                 data.user_guild_settings.v)
                                         ELSE EmptyCollection]
  IN [this |-> u4,
      token |-> IF Truthy(Get(data, "token")) THEN data.token ELSE token]

\* new ClientUser(client, data): the User constructor applies _patch
ClientUser_new(inst, token, data) == ClientUser_patch(BlankUser(inst), token, data)

---------------------------------------------------------------------------
(* The READY handler.  w is the client: user (client.user), users         *)
(* (client.users.cache, id -> instance), guilds (the guild registry),      *)
(* token (client.token), nextInst (instances allocated so far + 1),        *)
(* checkReady (calls of shard.checkReady() per shard) and log (the calls   *)
(* the running handler has made, in order).                                *)

Logged(w, e, k) == [w EXCEPT !.log = Append(@, [e |-> e, k |-> k])]

\* ReadyUser with the `if (client.user)` test lost: every handshake constructs
ReadyUserAlwaysNew(w, data) ==
  LET du == Put(Put(data.user, "user_settings", Get(data, "user_settings")),
                "user_guild_settings", Get(data, "user_guild_settings"))
      r == ClientUser_new(w.nextInst, w.token, du)
  IN Logged([w EXCEPT !.user = r.this, !.token = r.token,
                      !.nextInst = @ + 1,
                      !.users = CollectionSet(@, r.this.id, r.this.inst)],
            "new ClientUser", Me)

\* lines 6-16: patch the existing entity or create it
ReadyUser(w, data) ==
  IF w.user.inst # 0
  THEN LET r == ClientUser_patch(w.user, w.token, data.user)
       IN Logged([w EXCEPT !.user = r.this, !.token = r.token], "user._patch", Me)
  ELSE LET du == Put(Put(data.user, "user_settings", Get(data, "user_settings")),
                     "user_guild_settings", Get(data, "user_guild_settings"))
           r == ClientUser_new(w.nextInst, w.token, du)
       IN Logged([w EXCEPT !.user = r.this, !.token = r.token,
                           !.nextInst = @ + 1,
                           !.users = CollectionSet(@, r.this.id, r.this.inst)],
                 "new ClientUser", Me)

\* client.guilds.add(guild) of the guild registry
GuildsAdd(w, guild) == Logged([w EXCEPT !.guilds = @ \cup {guild.id}], "guilds.add", guild.id)

\* lines 18-21
RECURSIVE ReadyGuilds(_, _, _)
ReadyGuilds(w, guilds, shard) ==
  IF guilds = <<>> THEN w
  ELSE ReadyGuilds(GuildsAdd(w, [id |-> Head(guilds), shardID |-> shard]), Tail(guilds), shard)

\* client.users.add(data): the cached user, created when missing
UsersAdd(w, id) ==
  IF id \in DOMAIN w.users
  THEN Logged(w, "users.add", id)
  ELSE Logged([w EXCEPT !.users = CollectionSet(@, id, w.nextInst), !.nextInst = @ + 1],
              "users.add", id)

\* ReadyRelation with the `relation.type === 2` test lost
ReadyRelationElseBlocked(w, relation) ==
  LET w1 == UsersAdd(w, relation.user)
      user == w1.users[relation.user]
  IN IF relation.type = 1
     THEN Logged([w1 EXCEPT !.user.friends = CollectionSet(@, relation.user, user)],
                 "friends.set", relation.user)
     ELSE Logged([w1 EXCEPT !.user.blocked = CollectionSet(@, relation.user, user)],
                 "blocked.set", relation.user)

\* ReadyRelation storing a user object of its own instead of the cached one
ReadyRelationPrivateCopy(w, relation) ==
  LET w0 == UsersAdd(w, relation.user)
      w1 == [w0 EXCEPT !.nextInst = @ + 1]
      user == w0.nextInst
  IN IF relation.type = 1
     THEN Logged([w1 EXCEPT !.user.friends = CollectionSet(@, relation.user, user)],
                 "friends.set", relation.user)
     ELSE IF relation.type = 2
          THEN Logged([w1 EXCEPT !.user.blocked = CollectionSet(@, relation.user, user)],
                      "blocked.set", relation.user)
          ELSE w1

\* lines 24-29: one iteration of the relationships loop
ReadyRelation(w, relation) ==
  LET w1 == UsersAdd(w, relation.user)
      user == w1.users[relation.user]
  IN IF relation.type = 1
     THEN Logged([w1 EXCEPT !.user.friends = CollectionSet(@, relation.user, user)],
                 "friends.set", relation.user)
     ELSE IF relation.type = 2
          THEN Logged([w1 EXCEPT !.user.blocked = CollectionSet(@, relation.user, user)],
                      "blocked.set", relation.user)
          ELSE w1

\* lines 23-30
RECURSIVE ReadyRelationships(_, _)
ReadyRelationships(w, relationships) ==
  IF relationships = <<>> THEN w
  ELSE ReadyRelationships(ReadyRelation(w, Head(relationships)), Tail(relationships))

\* ReadyNote with the `if (!note.length) note = null` line lost
ReadyNoteRaw(raw) == Str(raw)

\* lines 34-35: the empty string becomes null
ReadyNote(raw) == IF Len(raw) = 0 THEN Null ELSE Str(raw)

\* lines 33-38
RECURSIVE ReadyNotesLoop(_, _)
ReadyNotesLoop(w, notes) ==
  IF notes = <<>> THEN w
  ELSE ReadyNotesLoop(
         Logged([w EXCEPT !.user.notes = CollectionSet(@, Head(notes).user,
                                                       ReadyNote(Head(notes).note))],
                "notes.set", Head(notes).user),
         Tail(notes))

\* lines 32-39
ReadyNotes(w, data) == IF "notes" \in DOMAIN data THEN ReadyNotesLoop(w, data.notes) ELSE w

\* line 41
CheckReady(w, shard) == Logged([w EXCEPT !.checkReady[shard] = @ + 1], "checkReady", "")

\* READY with shard.checkReady() called before the notes are inserted
READYCheckBeforeNotes(w, data, shard) ==
  ReadyNotes(
    CheckReady(
      ReadyRelationships(
        ReadyGuilds(ReadyUser(w, data), data.guilds, shard),
        data.relationships),
      shard),
    data)

\* READY returning right after the patch when client.user already exists
READYReturnsAfterPatch(w, data, shard) ==
  IF w.user.inst # 0
  THEN ReadyUser(w, data)
  ELSE CheckReady(
         ReadyNotes(
           ReadyRelationships(
             ReadyGuilds(ReadyUser(w, data), data.guilds, shard),
             data.relationships),
           data),
         shard)

\* module.exports = (client, { d: data }, shard) => { ... }
READY(w, data, shard) ==
  CheckReady(
    ReadyNotes(
      ReadyRelationships(
        ReadyGuilds(ReadyUser(w, data), data.guilds, shard),
        data.relationships),
      data),
    shard)

---------------------------------------------------------------------------
(* The actions of the dispatcher *)

NoReturn == [old |-> Undefined, updated |-> Undefined]

\* client.emit(Events.USER_NOTE_UPDATE, id, oldNote, note); seen is what an
\* observer reading client.user.notes.get(id) inside the listener gets
Emit(w, id, oldNote, note) ==
  [w EXCEPT !.events = Append(@, [name |-> "userNoteUpdate", id |-> id, old |-> oldNote,
                                  new |-> note,
                                  seen |-> CollectionGet(w.user.notes, id)])]

\* UserNoteUpdateAction.handle(data): reading client.user.cache.notes throws a
\* TypeError when client.user.cache is undefined
UserNoteUpdateHandle(w, data) ==
  IF TypeOf(w.user.cache) = "undefined"
  THEN [w |-> w, threw |-> TRUE, ret |-> NoReturn]
  ELSE LET notes == w.user.cache.v.notes
           oldNote == CollectionGet(notes, data.id)
           note == IF Len(data.note) # 0 THEN Str(data.note) ELSE Null
           w1 == [w EXCEPT !.user.cache = Obj([notes |-> CollectionSet(notes, data.id, note)])]
       IN [w |-> Emit(w1, data.id, oldNote, note),
           threw |-> FALSE,
           ret |-> [old |-> oldNote, updated |-> note]]

\* UserUpdateAction.handle(data): merges the payload into the cached user
UserUpdateHandle(w, data) ==
  LET r == ClientUser_patch(w.user, w.token, data)
  IN Logged([w EXCEPT !.user = r.this, !.token = r.token], "user._patch", Me)

\* ClientUser.edit, lines 127-132: the callback run on the REST response
EditThen(w, newData) == UserUpdateHandle([w EXCEPT !.token = Get(newData, "token")], newData)

---------------------------------------------------------------------------
(* The application entity (ClientApplication) *)

AppId == "app"
TeamIds == {"T1"}
OwnerIds == {"A", Me}

AppOptionalKeys == {"cover_image", "rpc_origins", "bot_require_code_grant", "bot_public"}

AppKeyValues(k) ==
  CASE k = "cover_image" -> {Str("c")}
    [] k = "rpc_origins" -> {Arr(<<"o">>)}
    [] k \in {"bot_require_code_grant", "bot_public"} -> {Bool(TRUE), Bool(FALSE)}

\* the key left out, or the key with one of the values
Optional(k, values) == {f \in [{} -> values] : TRUE} \cup {(k :> v) : v \in values}

\* application objects: {id} plus at most MaxKeys of the optional keys, and
\* team and owner each left out, null or an object
ApplicationPayloads ==
  {("id" :> AppId) @@ f @@ tm @@ ow :
     f \in UNION {{g \in [K -> UNION {AppKeyValues(k) : k \in AppOptionalKeys}] :
                     \A k \in K : g[k] \in AppKeyValues(k)} :
                  K \in {S \in SUBSET AppOptionalKeys : Cardinality(S) <= MaxKeys}},
     tm \in Optional("team", {Null} \cup {Obj([id |-> t]) : t \in TeamIds}),
     ow \in Optional("owner", {Null} \cup {Obj([id |-> u]) : u \in OwnerIds})}

\* handshake payloads of the runs that construct applications
AppReadyPayloads ==
  {[BasePayload EXCEPT !.relationships = r] :
     r \in SeqsUpTo([user : {"A"}, type : {1}], 1)}

\* client.application before any is constructed
NoApplication == [id |-> ""]

\* the object `new ClientApplication` starts from
BlankApplication ==
  [id |-> "", cover |-> Undefined, rpcOrigins |-> Undefined,
   botRequireCodeGrant |-> Undefined, botPublic |-> Undefined, owner |-> Undefined]

\* Application._patch(data): the generic application fields
Application_patch(this, data) == [this EXCEPT !.id = data.id]

\* new Team(client, data)
NewTeam(data) == [t |-> "Team", v |-> data.v.id]

\* ClientApplication._patch with the owner looked at before the team
ClientApplication_patchOwnerFirst(w, this, data) ==
  LET a0 == Application_patch(this, data)
      a1 == [a0 EXCEPT
               !.cover = IF Truthy(Get(data, "cover_image")) THEN data.cover_image ELSE Null,
               !.rpcOrigins = IF Truthy(Get(data, "rpc_origins"))
                              THEN data.rpc_origins ELSE Arr(<<>>),
               !.botRequireCodeGrant =
                 IF TypeOf(Get(data, "bot_require_code_grant")) # "undefined"
                 THEN data.bot_require_code_grant ELSE Null,
               !.botPublic = IF TypeOf(Get(data, "bot_public")) # "undefined"
                             THEN data.bot_public ELSE Null]
  IN IF Truthy(Get(data, "owner"))
     THEN LET w1 == UsersAdd(w, data.owner.v.id)
          IN [w |-> w1,
              this |-> [a1 EXCEPT !.owner = [t |-> "User", v |-> w1.users[data.owner.v.id]]]]
     ELSE IF Truthy(Get(data, "team"))
          THEN [w |-> w, this |-> [a1 EXCEPT !.owner = NewTeam(data.team)]]
          ELSE [w |-> w, this |-> [a1 EXCEPT !.owner = Null]]

\* ClientApplication._patch(data); client.users.add may add to the user cache
ClientApplication_patch(w, this, data) ==
  LET a0 == Application_patch(this, data)
      a1 == [a0 EXCEPT
               !.cover = IF Truthy(Get(data, "cover_image")) THEN data.cover_image ELSE Null,
               !.rpcOrigins = IF Truthy(Get(data, "rpc_origins"))
                              THEN data.rpc_origins ELSE Arr(<<>>),
               !.botRequireCodeGrant =
                 IF TypeOf(Get(data, "bot_require_code_grant")) # "undefined"
                 THEN data.bot_require_code_grant ELSE Null,
               !.botPublic = IF TypeOf(Get(data, "bot_public")) # "undefined"
                             THEN data.bot_public ELSE Null]
  IN IF Truthy(Get(data, "team"))
     THEN [w |-> w, this |-> [a1 EXCEPT !.owner = NewTeam(data.team)]]
     ELSE IF Truthy(Get(data, "owner"))
          THEN LET w1 == UsersAdd(w, data.owner.v.id)
               IN [w |-> w1,
                   this |-> [a1 EXCEPT !.owner = [t |-> "User",
                                                  v |-> w1.users[data.owner.v.id]]]]
          ELSE [w |-> w, this |-> [a1 EXCEPT !.owner = Null]]

\* new ClientApplication(client, data): the constructor applies _patch
ClientApplication_new(w, data) == ClientApplication_patch(w, BlankApplication, data)

---------------------------------------------------------------------------
(* State *)

VARIABLES
  clientUser,   \* client.user: NoUser or the account entity
  users,        \* client.users.cache: id -> instance
  guilds,       \* ids registered in client.guilds
  token,        \* client.token
  nextInst,     \* next instance number `new` hands out
  checkReady,   \* shard -> calls of shard.checkReady()
  handshakes,   \* shard -> READY events handled for the shard
  pending,      \* REST requests of edit() in flight
  log,          \* calls made by the last handler, in order
  events,       \* notifications emitted by the last handler
  application,  \* the ClientApplication constructed last, or NoApplication
  last          \* the last event handled: op, data, shard, threw, ret, and
                \* again: it repeats the payload the previous event applied;
                \* moved: the handshake turned a friend into a blocked
                \* user or a blocked user into a friend

vars == <<clientUser, users, guilds, token, nextInst, checkReady, handshakes, pending,
          log, events, application, last>>

\* the client as the handlers see it, at the start of a handler
Client ==
  [user |-> clientUser, users |-> users, guilds |-> guilds, token |-> token,
   nextInst |-> nextInst, checkReady |-> checkReady, log |-> <<>>, events |-> <<>>]

Commit(w) ==
  /\ clientUser' = w.user
  /\ users' = w.users
  /\ guilds' = w.guilds
  /\ token' = w.token
  /\ nextInst' = w.nextInst
  /\ checkReady' = w.checkReady
  /\ log' = w.log
  /\ events' = w.events

Total(f) == f[0] + f[1]

\* some user is a friend in one entity state and blocked in the other
Moved(before, after) ==
  \/ DOMAIN before.friends \cap DOMAIN after.blocked # {}
  \/ DOMAIN before.blocked \cap DOMAIN after.friends # {}

Init ==
  /\ clientUser = NoUser
  /\ users = EmptyCollection
  /\ guilds = {}
  /\ token = InitialToken
  /\ nextInst = 1
  /\ checkReady = [s \in Shards |-> 0]
  /\ handshakes = [s \in Shards |-> 0]
  /\ pending = 0
  /\ log = <<>>
  /\ events = <<>>
  /\ application = NoApplication
  /\ last = [op |-> "none", data |-> <<>>, shard |-> 0, threw |-> FALSE,
             ret |-> NoReturn, again |-> FALSE, moved |-> FALSE]

\* the gateway delivers READY on one of the shards
Ready(payloads, shards) ==
  \E data \in payloads, shard \in shards :
    /\ Total(handshakes) < MaxHandshakes
    /\ Commit(READY(Client, data, shard))
    /\ handshakes' = [handshakes EXCEPT ![shard] = @ + 1]
    /\ last' = [op |-> "READY", data |-> data, shard |-> shard, threw |-> FALSE,
                ret |-> NoReturn, again |-> FALSE,
                moved |-> clientUser.inst # 0 /\ Moved(clientUser, clientUser')]
    /\ UNCHANGED <<pending, application>>

\* the gateway delivers USER_UPDATE for the logged-in user
UserUpdate(payloads) ==
  \E data \in payloads :
    /\ clientUser.inst # 0
    /\ Commit(UserUpdateHandle(Client, data))
    /\ last' = [op |-> "USER_UPDATE", data |-> data, shard |-> 0, threw |-> FALSE,
                ret |-> NoReturn,
                again |-> last.op \in {"USER_UPDATE", "EDIT_RESOLVE"} /\ last.data = data,
                moved |-> FALSE]
    /\ UNCHANGED <<handshakes, pending, application>>

\* the gateway delivers USER_NOTE_UPDATE
UserNoteUpdate ==
  \E data \in NoteUpdates :
    /\ clientUser.inst # 0
    /\ LET r == UserNoteUpdateHandle(Client, data)
       IN /\ Commit(r.w)
          /\ last' = [op |-> "USER_NOTE_UPDATE", data |-> data, shard |-> 0,
                      threw |-> r.threw, ret |-> r.ret, again |-> FALSE, moved |-> FALSE]
    /\ UNCHANGED <<handshakes, pending, application>>

\* client.user.edit(data, passcode): the request leaves
EditRequest ==
  /\ clientUser.inst # 0
  /\ pending < MaxPending
  /\ pending' = pending + 1
  /\ UNCHANGED <<clientUser, users, guilds, token, nextInst, checkReady, handshakes,
                 log, events, application, last>>

\* the REST response arrives
EditResolve ==
  \E newData \in UserPayloads :
    /\ pending > 0
    /\ pending' = pending - 1
    /\ Commit(EditThen(Client, newData))
    /\ last' = [op |-> "EDIT_RESOLVE", data |-> newData, shard |-> 0, threw |-> FALSE,
                ret |-> NoReturn, again |-> FALSE, moved |-> FALSE]
    /\ UNCHANGED <<handshakes, application>>

\* EditReject with the callback's token assignment run on the rejection too
EditRejectClearsToken ==
  /\ pending > 0
  /\ pending' = pending - 1
  /\ token' = Undefined
  /\ last' = [op |-> "EDIT_REJECT", data |-> <<>>, shard |-> 0, threw |-> TRUE,
              ret |-> NoReturn, again |-> FALSE, moved |-> FALSE]
  /\ UNCHANGED <<clientUser, users, guilds, nextInst, checkReady, handshakes, log, events,
                 application>>

\* the REST request is rejected
EditReject ==
  /\ pending > 0
  /\ pending' = pending - 1
  /\ last' = [op |-> "EDIT_REJECT", data |-> <<>>, shard |-> 0, threw |-> TRUE,
              ret |-> NoReturn, again |-> FALSE, moved |-> FALSE]
  /\ UNCHANGED <<clientUser, users, guilds, token, nextInst, checkReady, handshakes,
                 log, events, application>>

\* the gateway's events during and after bootstrap
Next ==
  \/ Ready(ReadyPayloads, Shards)
  \/ UserUpdate({BareUser})
  \/ UserNoteUpdate

Spec == Init /\ [][Next]_vars

\* the events of a single-shard client and the application calling edit()
NextEdit ==
  \/ Ready(EditReadyPayloads, {0})
  \/ UserUpdate(UserPayloads)
  \/ EditRequest
  \/ EditResolve
  \/ EditReject

SpecEdit == Init /\ [][NextEdit]_vars

\* resetSecret(): the REST response is wrapped in a new ClientApplication
ResetSecret ==
  \E app \in ApplicationPayloads :
    /\ LET r == ClientApplication_new(Client, app)
       IN /\ Commit(r.w)
          /\ application' = r.this
    /\ last' = [op |-> "RESET_SECRET", data |-> app, shard |-> 0, threw |-> FALSE,
                ret |-> NoReturn, again |-> FALSE, moved |-> FALSE]
    /\ UNCHANGED <<handshakes, pending>>

\* a single-shard client whose application is reconstructed
NextApp ==
  \/ Ready(AppReadyPayloads, {0})
  \/ ResetSecret

SpecApp == Init /\ [][NextApp]_vars

---------------------------------------------------------------------------
(* Properties *)

\* C1: client.user is created by the first handshake only, and once it
\* exists every later step (handshake from any shard, patch) leaves
\* client.user referring to the same instance.
C1_SingleInstance ==
  [][/\ (clientUser.inst = 0 /\ clientUser'.inst # 0)
          => (last'.op = "READY" /\ Total(handshakes) = 0)
     /\ clientUser.inst # 0 => clientUser'.inst = clientUser.inst]_vars

\* a handshake on each shard has been handled and client.user is still the
\* instance the first one created
C1_Witness ==
  /\ handshakes[0] = 1
  /\ handshakes[1] = 1
  /\ last.op = "READY"
  /\ clientUser.inst = 1
  /\ users[Me] = 1

\* C2: handling the same handshake payload a second time (on any shard)
\* leaves the entity state as the first handling left it.
C2_IdempotentBootstrap ==
  [][(last.op = "READY" /\ last'.op = "READY" /\ last'.data = last.data)
       => clientUser' = clientUser]_vars

\* C3: a _patch payload that omits the key of verified, email, premium,
\* mfaEnabled, mobile or settings leaves that field unchanged, and a payload
\* with exactly one of these keys changes only that field.
C3_PatchFieldIndependence ==
  [][last'.op = "USER_UPDATE" =>
       LET data == last'.data
           keys == DOMAIN data \ {"id", "token"}
       IN /\ "verified" \notin keys => clientUser'.verified = clientUser.verified
          /\ "email" \notin keys => clientUser'.email = clientUser.email
          /\ "premium" \notin keys => clientUser'.premium = clientUser.premium
          /\ "mfa_enabled" \notin keys => clientUser'.mfaEnabled = clientUser.mfaEnabled
          /\ "mobile" \notin keys => clientUser'.mobile = clientUser.mobile
          /\ "user_settings" \notin keys => clientUser'.settings = clientUser.settings]_vars

UsersOfType(R, t) == {R[i].user : i \in {j \in 1..Len(R) : R[j].type = t}}

\* C4: after a handshake with relationships list R, friends holds exactly
\* the users of R with type 1, blocked exactly those with type 2, every user
\* of R is in the global user cache, a user listed only with other type
\* codes is in neither mapping, and the handshake has completed.
C4_RelationshipClassification ==
  last.op = "READY" =>
    LET R == last.data.relationships
    IN /\ DOMAIN clientUser.friends = UsersOfType(R, 1)
       /\ DOMAIN clientUser.blocked = UsersOfType(R, 2)
       /\ \A i \in 1..Len(R) :
            /\ R[i].user \in DOMAIN users
            /\ R[i].user \notin UsersOfType(R, 1) \cup UsersOfType(R, 2)
                 => R[i].user \notin DOMAIN clientUser.friends \cup DOMAIN clientUser.blocked
       /\ ~last.threw
       /\ log[Len(log)].e = "checkReady"

\* a later handshake listed one blocked user and one user of another type
C4_Witness ==
  /\ last.op = "READY"
  /\ Total(handshakes) = 2
  /\ LET R == last.data.relationships
     IN /\ Len(R) = 2
        /\ R[1].type = 2
        /\ R[2].type = 3
        /\ R[1].user # R[2].user
        /\ DOMAIN clientUser.blocked = {R[1].user}
        /\ R[2].user \in DOMAIN users

NormalizedNote(raw) == IF raw = "" THEN Null ELSE Str(raw)

\* C5: handling {id: U, note: n} returns updated = n (null for the empty
\* string) and old = the note stored for U before the call (null when there
\* was none), and afterwards notes.get(U) equals updated.
C5_NoteNormalization ==
  [][last'.op = "USER_NOTE_UPDATE" =>
       LET data == last'.data
       IN /\ ~last'.threw
          /\ last'.ret.updated = NormalizedNote(data.note)
          /\ last'.ret.old = IF data.id \in DOMAIN clientUser.notes
                             THEN clientUser.notes[data.id] ELSE Null
          /\ CollectionGet(clientUser'.notes, data.id) = NormalizedNote(data.note)]_vars

\* C6: every handled note update emits its notification before handle
\* returns, after the commit: the notification's old value is the value
\* cached before the set, and an observer reading notes.get(id) during the
\* notification gets the updated value.
C6_NotificationOrdering ==
  [][last'.op = "USER_NOTE_UPDATE" =>
       /\ Len(events') = 1
       /\ events'[1].id = last'.data.id
       /\ events'[1].old = CollectionGet(clientUser.notes, last'.data.id)
       /\ events'[1].seen = events'[1].new]_vars

Count(q, e) == Cardinality({i \in 1..Len(q) : q[i].e = e})

\* C7: a handshake calls shard.checkReady() exactly once, as its last call,
\* after the entity patch/creation, every guild registration, every
\* relationship insertion and every note insertion of the payload; per
\* shard, the calls of checkReady equal the handshakes handled.
C7_ReadinessSignal ==
  /\ \A s \in Shards : checkReady[s] = handshakes[s]
  /\ last.op = "READY" =>
       LET data == last.data
           n == Len(log)
       IN /\ Count(log, "checkReady") = 1
          /\ log[n].e = "checkReady"
          /\ Count(log, "user._patch") + Count(log, "new ClientUser") = 1
          /\ Count(log, "guilds.add") = Len(data.guilds)
          /\ Count(log, "users.add") = Len(data.relationships)
          /\ Count(log, "friends.set") + Count(log, "blocked.set")
               = Cardinality({i \in 1..Len(data.relationships) :
                                data.relationships[i].type \in {1, 2}})
          /\ Count(log, "notes.set") = IF "notes" \in DOMAIN data THEN Len(data.notes) ELSE 0

\* the second shard's handshake carried a guild, a relationship and a note
C7_Witness ==
  /\ last.op = "READY"
  /\ handshakes[0] = 1
  /\ handshakes[1] = 1
  /\ checkReady[last.shard] = 1
  /\ Len(last.data.guilds) = 1
  /\ Len(last.data.relationships) = 1
  /\ "notes" \in DOMAIN last.data
  /\ Len(last.data.notes) = 1
  /\ Len(log) >= 5

\* C8: no entry of the notes mapping holds the empty string: each stored
\* value is null or a non-empty string.
C8_NoEmptyNote ==
  clientUser.inst # 0 =>
    \A k \in DOMAIN clientUser.notes :
      \/ clientUser.notes[k] = Null
      \/ (clientUser.notes[k].t = "string" /\ Len(clientUser.notes[k].v) > 0)

\* a handshake carried an empty note, which is stored as null
C8_Witness ==
  /\ last.op = "READY"
  /\ "notes" \in DOMAIN last.data
  /\ \E i \in 1..Len(last.data.notes) :
       /\ last.data.notes[i].note = ""
       /\ last.data.notes[i].user \in DOMAIN clientUser.notes
       /\ clientUser.notes[last.data.notes[i].user] = Null

\* C9: a handshake whose payload has no notes field leaves every note that
\* was present before it present with the same value.
C9_AbsentNotesUntouched ==
  [][(last'.op = "READY" /\ "notes" \notin DOMAIN last'.data /\ clientUser.inst # 0)
       => \A k \in DOMAIN clientUser.notes :
            /\ k \in DOMAIN clientUser'.notes
            /\ clientUser'.notes[k] = clientUser.notes[k]]_vars

\* the user payload a step has processed, if any
Processed(l) ==
  IF l.op = "READY" THEN l.data.user
  ELSE IF l.op \in {"USER_UPDATE", "EDIT_RESOLVE"} THEN l.data
  ELSE <<>>

\* C10: client.token changes only when a processed payload carries a token:
\* a _patch payload or an edit() response without a token leaves it, and a
\* payload with a token makes client.token equal to it.
C10_TokenSlot ==
  [][IF "token" \in DOMAIN Processed(last')
     THEN token' = Processed(last').token
     ELSE token' = token]_vars

\* C11: a rejected edit() request changes neither the account entity (its
\* fields, friends, blocked, notes, guildSettings) nor client.token, and
\* sending the request changes nothing either: the merge happens only on a
\* successful response.
C11_EditFailureNoMutation ==
  [][(last'.op = "EDIT_REJECT" \/ pending' > pending)
       => /\ clientUser' = clientUser
          /\ token' = token
          /\ users' = users
          /\ guilds' = guilds]_vars

\* an edit() was rejected while every cache of the entity was filled
C11_Witness ==
  /\ last.op = "EDIT_REJECT"
  /\ last.threw
  /\ pending = 0
  /\ DOMAIN clientUser.friends # {}
  /\ DOMAIN clientUser.notes # {}
  /\ DOMAIN clientUser.guildSettings # {}
  /\ token = InitialToken

TriState == {Bool(TRUE), Bool(FALSE), Null}

\* C12: once the entity is constructed, and after any patches, each of
\* verified, premium, mfaEnabled and mobile is true, false or null, never
\* undefined.
C12_TriStateBooleans ==
  clientUser.inst # 0 =>
    /\ clientUser.verified \in TriState
    /\ clientUser.premium \in TriState
    /\ clientUser.mfaEnabled \in TriState
    /\ clientUser.mobile \in TriState

\* C13 as stated: a handshake that finds the entity already there patches
\* it and returns: no entity is created and none of the payload's
\* relationships or notes is inserted into friends, blocked or notes.
C13_ReentryReturns ==
  [][(last'.op = "READY" /\ clientUser.inst # 0)
       => /\ log'[1].e = "user._patch"
          /\ Count(log', "new ClientUser") = 0
          /\ Count(log', "friends.set") + Count(log', "blocked.set")
               + Count(log', "notes.set") = 0]_vars

\* C13 amended: a handshake that finds the entity already there patches it
\* with payload.user, creates no entity, and then goes on as a first
\* handshake does: it registers the guilds, inserts the relationships and
\* the notes of the payload and calls shard.checkReady().
C13_ReentryPatchesAndContinues ==
  [][(last'.op = "READY" /\ clientUser.inst # 0)
       => LET data == last'.data
          IN /\ log'[1].e = "user._patch"
             /\ \A i \in 1..Len(log') : log'[i].e # "new ClientUser"
             /\ clientUser'.inst = clientUser.inst
             /\ \A i \in 1..Len(data.guilds) : data.guilds[i] \in guilds'
             /\ DOMAIN clientUser'.friends = UsersOfType(data.relationships, 1)
             /\ DOMAIN clientUser'.blocked = UsersOfType(data.relationships, 2)
             /\ "notes" \in DOMAIN data
                  => DOMAIN clientUser'.notes = {data.notes[i].user : i \in 1..Len(data.notes)}
             /\ log'[Len(log')].e = "checkReady"]_vars

\* a second handshake patched the entity and inserted a friend and a note
C13_Witness ==
  /\ last.op = "READY"
  /\ Total(handshakes) = 2
  /\ clientUser.inst = 1
  /\ log[1].e = "user._patch"
  /\ Count(log, "friends.set") = 1
  /\ Count(log, "notes.set") = 1
  /\ DOMAIN clientUser.friends # {}
  /\ DOMAIN clientUser.notes # {}

\* C14: after any handshake, first or later, whose user_guild_settings has
\* an entry for guild G, guildSettings.get(G) is the record built from that
\* entry alone.
C14_GuildSettingsReplacement ==
  (last.op = "READY" /\ "user_guild_settings" \in DOMAIN last.data)
    => LET list == last.data.user_guild_settings.v
       IN \A i \in 1..Len(list) :
            /\ list[i].guild_id \in DOMAIN clientUser.guildSettings
            /\ clientUser.guildSettings[list[i].guild_id]
                 = NewClientUserGuildSettings(list[i])

\* C15: applying the patch merger to the existing entity leaves friends,
\* blocked and notes as they were: a USER_UPDATE, or a later handshake that
\* carries no relationship and no notes, changes no entry of the three.
C15_PatchLeavesCaches ==
  [][(\/ last'.op = "USER_UPDATE"
      \/ /\ last'.op = "READY"
         /\ clientUser.inst # 0
         /\ last'.data.relationships = <<>>
         /\ "notes" \notin DOMAIN last'.data)
       => /\ clientUser'.friends = clientUser.friends
          /\ clientUser'.blocked = clientUser.blocked
          /\ clientUser'.notes = clientUser.notes]_vars

\* C16: every id in friends or blocked is a key of the global user cache and
\* the value stored under it is the entity the user cache holds for that id;
\* once the account entity exists it is the user cache's entry for its id.
C16_SharedReferences ==
  clientUser.inst # 0 =>
    /\ \A k \in DOMAIN clientUser.friends :
         k \in DOMAIN users /\ clientUser.friends[k] = users[k]
    /\ \A k \in DOMAIN clientUser.blocked :
         k \in DOMAIN users /\ clientUser.blocked[k] = users[k]
    /\ clientUser.id \in DOMAIN users
    /\ users[clientUser.id] = clientUser.inst

\* after a second handshake the entity has a friend and a blocked user
C16_Witness ==
  /\ Total(handshakes) = 2
  /\ DOMAIN clientUser.friends # {}
  /\ DOMAIN clientUser.blocked # {}
  /\ users[Me] = clientUser.inst

\* C17: the note update that follows a handshake works on the mapping the
\* handshake filled: for a user U the handshake gave a note, the update
\* returns that note as old, and the note it commits is what the entity's
\* notes mapping holds for U afterwards.
C17_SameNotesMapping ==
  [][(/\ last.op = "READY"
      /\ last'.op = "USER_NOTE_UPDATE"
      /\ last'.data.id \in DOMAIN clientUser.notes)
       => /\ ~last'.threw
          /\ last'.ret.old = clientUser.notes[last'.data.id]
          /\ last'.data.id \in DOMAIN clientUser'.notes
          /\ clientUser'.notes[last'.data.id] = last'.ret.updated]_vars

\* C18: applying _patch with the same user payload twice in a row gives the
\* entity state and the client.token that applying it once gives: a
\* USER_UPDATE that carries the payload the previous USER_UPDATE or the
\* previous REST response of edit() applied changes neither the entity nor
\* client.token, whatever state the first of the two found.
C18_PatchIdempotence ==
  [][(last'.op = "USER_UPDATE" /\ last'.again)
       => /\ clientUser' = clientUser
          /\ token' = token]_vars

\* a USER_UPDATE applied the payload the previous event had just applied,
\* to the account entity, and the payload carried one of the boolean flags
C18_Witness ==
  /\ last.op = "USER_UPDATE"
  /\ last.again
  /\ DOMAIN last.data \cap {"verified", "premium", "mfa_enabled", "mobile"} # {}
  /\ clientUser = ClientUser_patch(clientUser, token, last.data).this

\* a payload field counts as present when it has a value other than null
Present(data, k) == k \in DOMAIN data /\ data[k] # Null

\* C19: after ClientApplication._patch(data), owner is a Team built from
\* data.team whenever data.team is present, whether or not data.owner is;
\* otherwise the user-cache entity for data.owner when that is present;
\* otherwise null.
C19_OwnerResolution ==
  last.op = "RESET_SECRET" =>
    LET data == last.data
    IN IF Present(data, "team")
       THEN application.owner = NewTeam(data.team)
       ELSE IF Present(data, "owner")
            THEN /\ data.owner.v.id \in DOMAIN users
                 /\ application.owner = [t |-> "User", v |-> users[data.owner.v.id]]
            ELSE application.owner = Null

\* an application built from a payload that carries a team and an owner
C19_Witness ==
  /\ last.op = "RESET_SECRET"
  /\ Present(last.data, "team")
  /\ Present(last.data, "owner")
  /\ application.owner.t = "Team"

\* the list names each user at most once
UniqueUsers(R) == \A i, j \in 1..Len(R) : R[i].user = R[j].user => i = j

\* C20: friends and blocked are disjoint as long as each handshake payload
\* lists each user at most once: such a handshake leaves every listed user
\* in the one mapping that matches its type in that handshake, whatever the
\* earlier handshakes said, and no other step puts a user into both.
C20_FriendsBlockedDisjoint ==
  [][/\ (last'.op = "READY" /\ UniqueUsers(last'.data.relationships))
          => /\ DOMAIN clientUser'.friends \cap DOMAIN clientUser'.blocked = {}
             /\ DOMAIN clientUser'.friends = UsersOfType(last'.data.relationships, 1)
             /\ DOMAIN clientUser'.blocked = UsersOfType(last'.data.relationships, 2)
     /\ (/\ last'.op # "READY"
         /\ clientUser.inst # 0
         /\ DOMAIN clientUser.friends \cap DOMAIN clientUser.blocked = {})
          => DOMAIN clientUser'.friends \cap DOMAIN clientUser'.blocked = {}]_vars

\* a later handshake that names each user once has moved a user from one
\* mapping to the other
C20_Witness ==
  /\ last.op = "READY"
  /\ last.moved
  /\ UniqueUsers(last.data.relationships)
  /\ DOMAIN clientUser.friends \cup DOMAIN clientUser.blocked # {}

====
